---- MODULE Spec2Model ----
(***************************************************************************)
(* Model of redis_demo.py: main() drives two cache instances (the LRU      *)
(* instance on port 6000, the LFU instance on port 6001) through           *)
(* saturation, access-pattern injection, eviction trigger and survival     *)
(* analysis.  Every collaborator call (ping, flushdb, setex, get, exists,  *)
(* info) is a step whose answer the cache instance decides.                *)
(***************************************************************************)
EXTENDS Integers, Sequences, FiniteSets, TLC

(* ---------------- program constants (redis_demo.py) ------------------- *)
HighQuota == 12
MediumQuota == 24
LowQuota == 48
HighReads == 10
MediumReads == 5
LowReads == 2
TriggerWrites == 50
HighWaterMark == 95

(* ---------------- bounds of the model --------------------------------- *)
\* bytes one written entry adds to used_memory (the payload is of fixed size)
PayloadSize == 2
\* the small memory ceilings (maxmemory, in bytes) range over 0..MaxMem
MaxMem == 4
\* entries the large instance of the 50-entry scenario holds
StubCapacity == 50
\* saturation writes the model follows per instance before it stops exploring
MaxSatWrites == StubCapacity + 2

Instances == {"lru", "lfu"}

VARIABLES
    cfg,                \* per instance: the cache server's configuration and health
    store,              \* per instance: entries held, least recently used first
    generated,          \* number of session keys generated so far
    pc,                 \* position of main()
    lru_keys, lru_error_occurred, lru_error_msg, lru_info,
    lfu_keys, high_access_keys, medium_access_keys, low_access_keys, lfu_info,
    read_pos,           \* reads issued so far by the three access-pattern loops
    initial_key_count, i, current_keys, evicted_keys,
    probe_pos,          \* existence probes issued so far by the six comprehensions
    survived_high, survived_medium, survived_low,   \* the lists, as far as built
    evicted_high, evicted_medium, evicted_low,
    final_lru_info, final_lfu_info,
    \* history of the run, read only by the properties
    attempts,           \* per instance: saturation writes issued
    stop_cause,         \* per instance: the statement that left the saturation loop
    stop_error,         \* per instance: the exception that ended the saturation loop
    last_probe,         \* the last telemetry probe: raw answers and returned snapshot
    vanished,           \* an entry left the LFU instance since the analysis began
    first_analysis,     \* the six lists of the first analysis, once it is repeated
    calls,              \* per instance and call site: calls issued so far
    failed,             \* per instance and call site: calls that raised in main()
                        \* (get_redis_info catches what its INFO calls raise)
    reads_of            \* per key: lfu_redis.get(key) calls issued by the read loops

vars == <<cfg, store, generated, pc,
          lru_keys, lru_error_occurred, lru_error_msg, lru_info,
          lfu_keys, high_access_keys, medium_access_keys, low_access_keys, lfu_info,
          read_pos, initial_key_count, i, current_keys, evicted_keys,
          probe_pos, survived_high, survived_medium, survived_low,
          evicted_high, evicted_medium, evicted_low,
          final_lru_info, final_lfu_info,
          attempts, stop_cause, stop_error, last_probe,
          vanished, first_analysis, calls, failed, reads_of>>

\* a name main() has not bound yet (a number not bound yet is written -1)
Unbound == [unbound |-> TRUE]

(* ---------------- the cache instance (collaborator) ------------------- *)
\* A call's answer: a value, or the exception the client raises.
Ok(v) == [ok |-> TRUE, val |-> v]
Raise(cls, msg) == [ok |-> FALSE, cls |-> cls, msg |-> msg]

OomMsg == "OOM command not allowed when used memory > 'maxmemory'."
OtherResponseMsg == "MISCONF Redis is configured to save RDB snapshots"
TimeoutMsg == "Timeout reading from socket"

\* does an entry more fit under the ceiling (maxmemory 0: no ceiling)
Fits(s, maxmemory) ==
    maxmemory = 0 \/ PayloadSize * (Len(s) + 1) <= maxmemory

\* position of the entry to reclaim: lowest read count, least recently used first
Victim(s) ==
    CHOOSE v \in 1..Len(s) :
        /\ \A w \in 1..Len(s) : s[v].freq <= s[w].freq
        /\ \A w \in 1..(v - 1) : s[w].freq > s[v].freq

Remove(s, v) == [n \in 1..(Len(s) - 1) |-> IF n < v THEN s[n] ELSE s[n + 1]]

RECURSIVE MakeRoom(_, _)
MakeRoom(s, maxmemory) ==
    IF Fits(s, maxmemory) \/ s = <<>> THEN s
    ELSE MakeRoom(Remove(s, Victim(s)), maxmemory)

\* what the server itself answers to SETEX, network aside
CapacityAnswer(c, s) ==
    IF Fits(s, c.maxmemory) THEN Ok(TRUE)
    ELSE IF c.policy = "noeviction" THEN Raise("ResponseError", OomMsg)
    ELSE IF Fits(MakeRoom(s, c.maxmemory), c.maxmemory) THEN Ok(TRUE)
    ELSE Raise("ResponseError", OomMsg)

\* every answer setex may get in the given phase of the run
SetexAnswers(c, s, phase) ==
    {CapacityAnswer(c, s)} \cup
    (IF c.faults = phase
     THEN {Raise("TimeoutError", TimeoutMsg), Raise("ResponseError", OtherResponseMsg)}
     ELSE {})

\* the store after an accepted SETEX of key
Stored(c, s, key) == Append(MakeRoom(s, c.maxmemory), [key |-> key, freq |-> 0])

Holds(s, key) == \E n \in 1..Len(s) : s[n].key = key

\* the store after a served GET of key: one read more, most recently used
Touched(s, key) ==
    IF ~Holds(s, key) THEN s
    ELSE LET n == CHOOSE m \in 1..Len(s) : s[m].key = key
         IN Append(Remove(s, n), [key |-> key, freq |-> s[n].freq + 1])

InfoMemory(c, s) ==
    Ok([used_memory |-> PayloadSize * Len(s), maxmemory |-> c.maxmemory])

\* INFO keyspace lists a database only while it holds keys
InfoKeyspace(s) ==
    Ok(IF Len(s) = 0 THEN <<>> ELSE [db0 |-> [keys |-> Len(s)]])

NotCalled == [ok |-> FALSE, cls |-> "", msg |-> "<not called>"]

\* the pairs <<INFO memory answer, INFO keyspace answer>> one probe may get
InfoAnswers(c, s) ==
    LET good == {<<InfoMemory(c, s), InfoKeyspace(s)>>}
        bad  == {<<Raise("TimeoutError", TimeoutMsg), NotCalled>>}
        half == {<<InfoMemory(c, s), Raise("TimeoutError", TimeoutMsg)>>}
    IN CASE c.telemetry = "ok"    -> good
         [] c.telemetry = "down"  -> bad
         [] OTHER                 -> good \cup bad \cup half

\* the places of main() that call an instance: ping (102, 106), flushdb (126, 127),
\* setex of the fill loops (173, 235), setex of the trigger loop (328), get (268,
\* 277, 286), exists (348-354), get_redis_info (179, 251, 298, 330, 359, 360)
CallSites == {"ping", "flushdb", "fill_setex", "trigger_setex", "get", "exists", "info"}

NoCalls == [inst \in Instances |-> [site \in CallSites |-> 0]]

\* the count h with one call more of inst at site
Called(h, inst, site) == [h EXCEPT ![inst][site] = @ + 1]

\* the count h, with one more when the condition holds
CalledIf(h, cond, inst, site) == IF cond THEN Called(h, inst, site) ELSE h

\* the per-key read count r with one read more of key
ReadOnce(r, key) ==
    [k \in DOMAIN r \cup {key} |->
        (IF k \in DOMAIN r THEN r[k] ELSE 0) + (IF k = key THEN 1 ELSE 0)]

(* ---------------- get_redis_info -------------------------------------- *)
\* memory_percent is the exact quotient num/den (Python computes a float)
Quotient(num, den) == [num |-> num, den |-> den]
GreaterThan(q, n) == q.num > n * q.den

\* variant: a failed probe reported as a full instance
ErrorSnapshotFull(e) ==
    [used_memory |-> 0, max_memory |-> 0, key_count |-> 0,
     memory_percent |-> Quotient(100, 1), error |-> e.msg]

ErrorSnapshot(e) ==
    [used_memory |-> 0, max_memory |-> 0, key_count |-> 0,
     memory_percent |-> Quotient(0, 1), error |-> e.msg]

\* variant: the quotient is taken without the max_memory > 0 test, and the
\* ZeroDivisionError lands in the except branch
get_redis_info_unguarded(mem, ks) ==
    IF ~mem.ok THEN ErrorSnapshot(mem)
    ELSE IF ~ks.ok THEN ErrorSnapshot(ks)
    ELSE IF mem.val.maxmemory = 0
         THEN ErrorSnapshot([msg |-> "float division by zero"])
    ELSE [used_memory |-> mem.val.used_memory,
          max_memory |-> mem.val.maxmemory,
          key_count |-> IF "db0" \in DOMAIN ks.val THEN ks.val.db0.keys ELSE 0,
          memory_percent |-> Quotient(mem.val.used_memory * 100, mem.val.maxmemory)]

get_redis_info(mem, ks) ==
    IF ~mem.ok THEN ErrorSnapshot(mem)
    ELSE IF ~ks.ok THEN ErrorSnapshot(ks)
    ELSE LET used_memory == mem.val.used_memory
             max_memory  == mem.val.maxmemory
             db0_info    == IF "db0" \in DOMAIN ks.val THEN ks.val.db0 ELSE <<>>
             key_count   == IF "keys" \in DOMAIN db0_info THEN db0_info.keys ELSE 0
         IN [used_memory |-> used_memory,
             max_memory |-> max_memory,
             key_count |-> key_count,
             memory_percent |-> IF max_memory > 0
                                THEN Quotient(used_memory * 100, max_memory)
                                ELSE Quotient(0, 1)]

\* variant: the loop compares with a mark two points higher
OverHighWaterLate(info) == GreaterThan(info.memory_percent, HighWaterMark + 2)

\* info["memory_percent"] > 95
OverHighWater(info) == GreaterThan(info.memory_percent, HighWaterMark)

ProbeRecord(inst, a) ==
    [inst |-> inst, mem |-> a[1], ks |-> a[2], snapshot |-> get_redis_info(a[1], a[2])]

\* "OOM" in str(e) or "maxmemory" in str(e)
IsMemoryLimit(e) == e.msg = OomMsg

(* ---------------- configurations -------------------------------------- *)
\* An instance: its ceiling (maxmemory, bytes; 0: none), what it does when full,
\* whether INFO answers, the phase of the run in which its network fails calls,
\* and whether entries may leave it between two calls of the analysis.
DefaultCfg ==
    [maxmemory |-> PayloadSize, policy |-> "evict", telemetry |-> "ok",
     faults |-> "none", volatile |-> FALSE]

SmallCfgs ==
    [maxmemory : 0..MaxMem, policy : {"noeviction", "evict"},
     telemetry : {"ok", "down", "flaky"}, faults : {"none"}, volatile : {FALSE}]

FaultyCfgs(phases) ==
    [maxmemory : 1..MaxMem, policy : {"noeviction", "evict"},
     telemetry : {"ok"}, faults : phases, volatile : {FALSE}]

VolatileCfgs ==
    [maxmemory : 1..MaxMem, policy : {"noeviction", "evict"},
     telemetry : {"ok"}, faults : {"none"}, volatile : {TRUE}]

\* instances that refuse writes once k entries are held, for every k up to the large one
CeilingCfgs ==
    [maxmemory : {PayloadSize * k : k \in 1..(StubCapacity + 1)}, policy : {"noeviction"},
     telemetry : {"ok", "down"}, faults : {"none"}, volatile : {FALSE}]

\* the 50-entry instance that reclaims the least read entry
StubCfg ==
    [maxmemory |-> StubCapacity * PayloadSize, policy |-> "evict",
     telemetry |-> "ok", faults |-> "none", volatile |-> FALSE]

LruCfgs ==
    SmallCfgs \cup FaultyCfgs({"connect", "saturation"}) \cup CeilingCfgs \cup {StubCfg}

LfuCfgs ==
    SmallCfgs \cup FaultyCfgs({"connect", "saturation", "injection", "trigger", "analysis"})
        \cup VolatileCfgs \cup CeilingCfgs \cup {StubCfg}

\* one instance is varied at a time, the other is the default one
Scenarios ==
    {[lru |-> a, lfu |-> DefaultCfg] : a \in LruCfgs}
    \cup {[lru |-> DefaultCfg, lfu |-> b] : b \in LfuCfgs}

(* ---------------- main(): start-up ------------------------------------ *)
\* data an instance may hold from an earlier run
StaleStores == {<<>>, <<[key |-> 0, freq |-> 0]>>}

Init ==
    /\ cfg \in Scenarios
    /\ store \in [Instances -> StaleStores]
    /\ generated = 0
    /\ pc = "connect"
    /\ lru_keys = <<>>
    /\ lru_error_occurred = FALSE
    /\ lru_error_msg = ""
    /\ lru_info = Unbound
    /\ lfu_keys = <<>>
    /\ high_access_keys = <<>>
    /\ medium_access_keys = <<>>
    /\ low_access_keys = <<>>
    /\ lfu_info = Unbound
    /\ read_pos = 0
    /\ initial_key_count = -1
    /\ i = -1
    /\ current_keys = -1
    /\ evicted_keys = -1
    /\ probe_pos = 0
    /\ survived_high = <<>> /\ survived_medium = <<>> /\ survived_low = <<>>
    /\ evicted_high = <<>> /\ evicted_medium = <<>> /\ evicted_low = <<>>
    /\ final_lru_info = Unbound
    /\ final_lfu_info = Unbound
    /\ attempts = [inst \in Instances |-> 0]
    /\ stop_cause = [inst \in Instances |-> "running"]
    /\ stop_error = [inst \in Instances |-> Unbound]
    /\ last_probe = Unbound
    /\ vanished = FALSE
    /\ first_analysis = <<>>
    /\ calls = NoCalls
    /\ failed = NoCalls
    /\ reads_of = <<>>

lru_vars == <<lru_keys, lru_error_occurred, lru_error_msg, lru_info>>
lfu_fill_vars == <<lfu_keys, high_access_keys, medium_access_keys, low_access_keys, lfu_info>>
trigger_vars == <<initial_key_count, i, current_keys, evicted_keys>>
analysis_vars == <<probe_pos, survived_high, survived_medium, survived_low,
                   evicted_high, evicted_medium, evicted_low>>
final_vars == <<final_lru_info, final_lfu_info>>
twice_vars == <<vanished, first_analysis>>
call_vars == <<calls, failed>>
history_vars == <<attempts, stop_cause, stop_error, last_probe, twice_vars>>

\* lines 82-123: both pings inside one try; every exception returns
PingAnswers(c) ==
    {Ok(TRUE)} \cup
    (IF c.faults = "connect"
     THEN {Raise("ConnectionError", "Connection refused"), Raise("TimeoutError", TimeoutMsg),
           Raise("ResponseError", "NOAUTH Authentication required.")}
     ELSE {})

\* variant: the except branches print and fall through, without return
AfterPingsNoReturn(a, b) == "flushdb"

\* where main() goes after the two pings: on, or out through an except branch
AfterPings(a, b) == IF a.ok /\ b.ok THEN "flushdb" ELSE "returned"

Connect ==
    /\ pc = "connect"
    /\ \E a \in PingAnswers(cfg.lru), b \in PingAnswers(cfg.lfu) :
          /\ pc' = AfterPings(a, b)
          /\ calls' = CalledIf(Called(calls, "lru", "ping"), a.ok, "lfu", "ping")
          /\ failed' = IF ~a.ok THEN Called(failed, "lru", "ping")
                        ELSE CalledIf(failed, ~b.ok, "lfu", "ping")
    /\ UNCHANGED <<cfg, store, generated, lru_vars, lfu_fill_vars, read_pos,
                   trigger_vars, analysis_vars, final_vars, history_vars, reads_of>>

\* lines 126-127: flushdb of both instances, outside any try
FlushDb ==
    /\ pc = "flushdb"
    /\ \/ /\ store' = [inst \in Instances |-> <<>>]
          /\ pc' = "lru_fill"
          /\ calls' = Called(Called(calls, "lru", "flushdb"), "lfu", "flushdb")
          /\ failed' = failed
       \/ /\ cfg.lru.faults = "connect"
          /\ store' = store
          /\ pc' = "raised"
          /\ calls' = Called(calls, "lru", "flushdb")
          /\ failed' = Called(failed, "lru", "flushdb")
       \/ /\ cfg.lfu.faults = "connect"
          /\ store' = [store EXCEPT !.lru = <<>>]
          /\ pc' = "raised"
          /\ calls' = Called(Called(calls, "lru", "flushdb"), "lfu", "flushdb")
          /\ failed' = Called(failed, "lfu", "flushdb")
    /\ UNCHANGED <<cfg, generated, lru_vars, lfu_fill_vars, read_pos,
                   trigger_vars, analysis_vars, final_vars, history_vars, reads_of>>

(* ---------------- Phase 1: fill the LRU instance (lines 140-194) ------ *)
\* the store after a SETEX whose reply was lost: served or never received
AfterLostWrite(c, s, key) ==
    {s} \cup (IF CapacityAnswer(c, s).ok THEN {Stored(c, s, key)} ELSE {})

\* lines 173-183: the write is accepted, the key appended, telemetry re-read
LruFillWrite ==
    /\ pc = "lru_fill"
    /\ attempts.lru < MaxSatWrites
    /\ Ok(TRUE) \in SetexAnswers(cfg.lru, store.lru, "saturation")
    /\ LET key == generated + 1
           s == Stored(cfg.lru, store.lru, key)
       IN /\ generated' = key
          /\ store' = [store EXCEPT !.lru = s]
          /\ lru_keys' = Append(lru_keys, key)
          /\ attempts' = [attempts EXCEPT !.lru = @ + 1]
          /\ \E a \in InfoAnswers(cfg.lru, s) :
                /\ last_probe' = ProbeRecord("lru", a)
                /\ lru_info' = get_redis_info(a[1], a[2])
                /\ failed' = failed
          /\ calls' = Called(Called(calls, "lru", "fill_setex"), "lru", "info")
          /\ IF OverHighWater(lru_info')
             THEN /\ pc' = "lfu_fill"
                  /\ stop_cause' = [stop_cause EXCEPT !.lru = "threshold"]
             ELSE /\ pc' = pc
                  /\ stop_cause' = stop_cause
    /\ UNCHANGED <<cfg, lru_error_occurred, lru_error_msg, lfu_fill_vars, read_pos,
                   trigger_vars, analysis_vars, final_vars, stop_error, twice_vars,
                   reads_of>>

\* lines 185-189: ResponseError naming the memory limit
LruFillRejected ==
    /\ pc = "lru_fill"
    /\ attempts.lru < MaxSatWrites
    /\ \E e \in SetexAnswers(cfg.lru, store.lru, "saturation") :
          /\ ~e.ok /\ e.cls = "ResponseError" /\ IsMemoryLimit(e)
          /\ lru_error_occurred' = TRUE
          /\ lru_error_msg' = "Memory limit reached: " \o e.msg
          /\ stop_error' = [stop_error EXCEPT !.lru = e]
    /\ generated' = generated + 1
    /\ attempts' = [attempts EXCEPT !.lru = @ + 1]
    /\ stop_cause' = [stop_cause EXCEPT !.lru = "rejected"]
    /\ pc' = "lfu_fill"
    /\ calls' = Called(calls, "lru", "fill_setex")
    /\ failed' = Called(failed, "lru", "fill_setex")
    /\ UNCHANGED <<cfg, store, lru_keys, lru_info, lfu_fill_vars, read_pos,
                   trigger_vars, analysis_vars, final_vars, last_probe, twice_vars,
                   reads_of>>

\* lines 190-191: any other ResponseError is raised again and leaves main()
LruFillResponseError ==
    /\ pc = "lru_fill"
    /\ attempts.lru < MaxSatWrites
    /\ \E e \in SetexAnswers(cfg.lru, store.lru, "saturation") :
          /\ ~e.ok /\ e.cls = "ResponseError" /\ ~IsMemoryLimit(e)
          /\ stop_error' = [stop_error EXCEPT !.lru = e]
    /\ generated' = generated + 1
    /\ attempts' = [attempts EXCEPT !.lru = @ + 1]
    /\ stop_cause' = [stop_cause EXCEPT !.lru = "raised"]
    /\ pc' = "raised"
    /\ calls' = Called(calls, "lru", "fill_setex")
    /\ failed' = Called(failed, "lru", "fill_setex")
    /\ UNCHANGED <<cfg, store, lru_vars, lfu_fill_vars, read_pos,
                   trigger_vars, analysis_vars, final_vars, last_probe, twice_vars,
                   reads_of>>

\* lines 192-194: any other exception is printed and the loop left
LruFillFailed ==
    /\ pc = "lru_fill"
    /\ attempts.lru < MaxSatWrites
    /\ \E e \in SetexAnswers(cfg.lru, store.lru, "saturation") :
          /\ ~e.ok /\ e.cls # "ResponseError"
          /\ stop_error' = [stop_error EXCEPT !.lru = e]
    /\ \E s \in AfterLostWrite(cfg.lru, store.lru, generated + 1) :
          store' = [store EXCEPT !.lru = s]
    /\ generated' = generated + 1
    /\ attempts' = [attempts EXCEPT !.lru = @ + 1]
    /\ stop_cause' = [stop_cause EXCEPT !.lru = "error"]
    /\ pc' = "lfu_fill"
    /\ calls' = Called(calls, "lru", "fill_setex")
    /\ failed' = Called(failed, "lru", "fill_setex")
    /\ UNCHANGED <<cfg, lru_vars, lfu_fill_vars, read_pos,
                   trigger_vars, analysis_vars, final_vars, last_probe, twice_vars,
                   reads_of>>

(* ---------------- Phase 2: fill the LFU instance (lines 201-259) ------ *)
\* variant: three independent if tests instead of if / elif / elif
CohortsIndependentTests(n) ==
    (IF n <= HighQuota THEN {"high"} ELSE {})
        \cup (IF n <= MediumQuota THEN {"medium"} ELSE {})
        \cup (IF n <= LowQuota THEN {"low"} ELSE {})

\* variant: the quotas are compared with < instead of <=
CohortsExclusiveBounds(n) ==
    IF n < HighQuota THEN {"high"}
    ELSE IF n < MediumQuota THEN {"medium"}
    ELSE IF n < LowQuota THEN {"low"}
    ELSE {}

\* lines 239-244: the cohort lists the key joins when it is the n-th of lfu_keys
Cohorts(n) ==
    IF n <= HighQuota THEN {"high"}
    ELSE IF n <= MediumQuota THEN {"medium"}
    ELSE IF n <= LowQuota THEN {"low"}
    ELSE {}

\* lines 235-253: write, append, categorize by position, re-read telemetry
LfuFillWrite ==
    /\ pc = "lfu_fill"
    /\ attempts.lfu < MaxSatWrites
    /\ Ok(TRUE) \in SetexAnswers(cfg.lfu, store.lfu, "saturation")
    /\ LET key == generated + 1
           s == Stored(cfg.lfu, store.lfu, key)
       IN /\ generated' = key
          /\ store' = [store EXCEPT !.lfu = s]
          /\ lfu_keys' = Append(lfu_keys, key)
          /\ high_access_keys' =
                IF "high" \in Cohorts(Len(lfu_keys'))
                THEN Append(high_access_keys, key) ELSE high_access_keys
          /\ medium_access_keys' =
                IF "medium" \in Cohorts(Len(lfu_keys'))
                THEN Append(medium_access_keys, key) ELSE medium_access_keys
          /\ low_access_keys' =
                IF "low" \in Cohorts(Len(lfu_keys'))
                THEN Append(low_access_keys, key) ELSE low_access_keys
          /\ attempts' = [attempts EXCEPT !.lfu = @ + 1]
          /\ \E a \in InfoAnswers(cfg.lfu, s) :
                /\ last_probe' = ProbeRecord("lfu", a)
                /\ lfu_info' = get_redis_info(a[1], a[2])
                /\ failed' = failed
          /\ calls' = Called(Called(calls, "lfu", "fill_setex"), "lfu", "info")
          /\ IF OverHighWater(lfu_info')
             THEN /\ pc' = "inject"
                  /\ stop_cause' = [stop_cause EXCEPT !.lfu = "threshold"]
             ELSE /\ pc' = pc
                  /\ stop_cause' = stop_cause
    /\ UNCHANGED <<cfg, lru_vars, read_pos, trigger_vars, analysis_vars,
                   final_vars, stop_error, twice_vars, reads_of>>

\* lines 257-259: every exception is printed and the loop left
LfuFillFailed ==
    /\ pc = "lfu_fill"
    /\ attempts.lfu < MaxSatWrites
    /\ \E e \in SetexAnswers(cfg.lfu, store.lfu, "saturation") :
          /\ ~e.ok
          /\ stop_error' = [stop_error EXCEPT !.lfu = e]
          /\ \E s \in IF e.cls = "TimeoutError"
                      THEN AfterLostWrite(cfg.lfu, store.lfu, generated + 1)
                      ELSE {store.lfu} :
                store' = [store EXCEPT !.lfu = s]
    /\ generated' = generated + 1
    /\ attempts' = [attempts EXCEPT !.lfu = @ + 1]
    /\ stop_cause' = [stop_cause EXCEPT !.lfu = "error"]
    /\ pc' = "inject"
    /\ calls' = Called(calls, "lfu", "fill_setex")
    /\ failed' = Called(failed, "lfu", "fill_setex")
    /\ UNCHANGED <<cfg, lru_vars, lfu_fill_vars, read_pos, trigger_vars,
                   analysis_vars, final_vars, last_probe, twice_vars, reads_of>>

(* ---------------- access-pattern injection (lines 261-291) ------------ *)
TotalReads ==
    HighReads * Len(high_access_keys) + MediumReads * Len(medium_access_keys)
        + LowReads * Len(low_access_keys)

\* variant: the loops read the name key, left bound by the fill loop to the last
\* key written, instead of their own loop variable
ReadKeyStale(p) == lfu_keys[Len(lfu_keys)]

\* the key the p-th read of the three loops asks for
ReadKey(p) ==
    LET h == HighReads * Len(high_access_keys)
        m == MediumReads * Len(medium_access_keys)
    IN IF p <= h THEN high_access_keys[((p - 1) \div HighReads) + 1]
       ELSE IF p - h <= m THEN medium_access_keys[((p - h - 1) \div MediumReads) + 1]
       ELSE low_access_keys[((p - h - m - 1) \div LowReads) + 1]

\* variant: the reads go to the other client
ReadTargetOther == "lru"

\* lines 268, 277, 286: the client the reads are issued on (lfu_redis)
ReadTarget == "lfu"

\* variant: try/except around the inner for loop, so that a failed read gives up
\* the remaining reads of its key
AfterReadAbandonsKey(p, ok) ==
    LET h == HighReads * Len(high_access_keys)
        m == MediumReads * Len(medium_access_keys)
    IN IF ok THEN p
       ELSE IF p <= h THEN (((p - 1) \div HighReads) + 1) * HighReads
       ELSE IF p - h <= m THEN h + (((p - h - 1) \div MediumReads) + 1) * MediumReads
       ELSE h + m + (((p - h - m - 1) \div LowReads) + 1) * LowReads

\* reads the loops are through once the p-th read has returned (ok) or raised:
\* the try/except is inside the inner loop, which goes on either way
AfterRead(p, ok) == p

\* lines 267-270, 276-279, 285-288: one get; a failure is swallowed
InjectRead ==
    /\ pc = "inject"
    /\ read_pos < TotalReads
    /\ LET key == ReadKey(read_pos + 1)
       IN /\ calls' = Called(calls, ReadTarget, "get")
          /\ reads_of' = ReadOnce(reads_of, key)
          /\ \/ /\ store' = [store EXCEPT ![ReadTarget] = Touched(@, key)]
                /\ failed' = failed
                /\ read_pos' = AfterRead(read_pos + 1, TRUE)
             \/ /\ cfg[ReadTarget].faults = "injection"
                /\ store' = store
                /\ failed' = Called(failed, ReadTarget, "get")
                /\ read_pos' = AfterRead(read_pos + 1, FALSE)
    /\ UNCHANGED <<cfg, generated, pc, lru_vars, lfu_fill_vars, trigger_vars,
                   analysis_vars, final_vars, history_vars>>

\* variant: the read loops sit inside the fill loop, which is entered again
AfterInjectionRefill == "lfu_fill"

\* where main() goes after the read loops: on to line 298
AfterInjection == "trigger_init"

\* line 291: the loops are over
FinishInjection ==
    /\ pc = "inject"
    /\ read_pos = TotalReads
    /\ pc' = AfterInjection
    /\ UNCHANGED <<cfg, store, generated, lru_vars, lfu_fill_vars, read_pos,
                   trigger_vars, analysis_vars, final_vars, history_vars,
                   call_vars, reads_of>>

(* ---------------- Phase 3: eviction trigger (lines 298-343) ----------- *)
\* line 298
TriggerInit ==
    /\ pc = "trigger_init"
    /\ \E a \in InfoAnswers(cfg.lfu, store.lfu) :
          /\ last_probe' = ProbeRecord("lfu", a)
          /\ initial_key_count' = get_redis_info(a[1], a[2]).key_count
          /\ failed' = failed
    /\ calls' = Called(calls, "lfu", "info")
    /\ pc' = "trigger"
    /\ UNCHANGED <<cfg, store, generated, lru_vars, lfu_fill_vars, read_pos,
                   i, current_keys, evicted_keys, analysis_vars, final_vars,
                   attempts, stop_cause, stop_error, twice_vars, reads_of>>

\* the value range(50) gives i next
NextI == i + 1

Max(a, b) == IF a >= b THEN a ELSE b

\* variant: the iterations left are added instead of the iterations done
EvictedEstimateCountdown(initial, iter, current) ==
    Max(0, (initial + (TriggerWrites - iter)) - current)

\* line 331
EvictedEstimate(initial, iter, current) == Max(0, (initial + iter + 1) - current)

\* lines 328-339: one more write, then the key count is sampled again
TriggerWrite ==
    /\ pc = "trigger"
    /\ NextI < TriggerWrites
    /\ Ok(TRUE) \in SetexAnswers(cfg.lfu, store.lfu, "trigger")
    /\ i' = NextI
    /\ LET key == generated + 1
           s == Stored(cfg.lfu, store.lfu, key)
       IN /\ generated' = key
          /\ store' = [store EXCEPT !.lfu = s]
          /\ \E a \in InfoAnswers(cfg.lfu, s) :
                /\ last_probe' = ProbeRecord("lfu", a)
                /\ current_keys' = get_redis_info(a[1], a[2]).key_count
                /\ failed' = failed
    /\ calls' = Called(Called(calls, "lfu", "trigger_setex"), "lfu", "info")
    /\ evicted_keys' = EvictedEstimate(initial_key_count, i', current_keys')
    /\ pc' = IF i' + 1 < TriggerWrites THEN "trigger" ELSE "analyze"
    /\ UNCHANGED <<cfg, lru_vars, lfu_fill_vars, read_pos, initial_key_count,
                   analysis_vars, final_vars, attempts, stop_cause, stop_error, twice_vars,
                   reads_of>>

\* lines 341-343: every exception is printed and the loop left
TriggerFailed ==
    /\ pc = "trigger"
    /\ NextI < TriggerWrites
    /\ i' = NextI
    /\ \E e \in SetexAnswers(cfg.lfu, store.lfu, "trigger") :
          /\ ~e.ok
          /\ \E s \in IF e.cls = "TimeoutError"
                      THEN AfterLostWrite(cfg.lfu, store.lfu, generated + 1)
                      ELSE {store.lfu} :
                store' = [store EXCEPT !.lfu = s]
    /\ generated' = generated + 1
    /\ pc' = "analyze"
    /\ calls' = Called(calls, "lfu", "trigger_setex")
    /\ failed' = Called(failed, "lfu", "trigger_setex")
    /\ UNCHANGED <<cfg, lru_vars, lfu_fill_vars, read_pos, initial_key_count,
                   current_keys, evicted_keys, analysis_vars, final_vars, history_vars,
                   reads_of>>

(* ---------------- survival analysis (lines 348-354) ------------------- *)
CohortKeys == high_access_keys \o medium_access_keys \o low_access_keys

\* the six comprehensions probe every cohort key twice
TotalProbes == 2 * Len(CohortKeys)

\* the key the q-th probe asks for
ProbeKey(q) == CohortKeys[((q - 1) % Len(CohortKeys)) + 1]

\* is the q-th probe one of lines 348-350 (survived), not of lines 352-354 (evicted)
SurvivedPass(q) == q <= Len(CohortKeys)

\* the cohort whose comprehension issues the q-th probe
ProbeCohort(q) ==
    LET n == ((q - 1) % Len(CohortKeys)) + 1
    IN IF n <= Len(high_access_keys) THEN "high"
       ELSE IF n <= Len(high_access_keys) + Len(medium_access_keys) THEN "medium"
       ELSE "low"

\* the list a comprehension builds, after its filter has seen key
Kept(v, key, keep) == IF keep THEN Append(v, key) ELSE v

ExistsAnswers(c, s, key) ==
    {Ok(Holds(s, key))} \cup
    (IF c.faults = "analysis" THEN {Raise("TimeoutError", TimeoutMsg)} ELSE {})

\* variant: the probe is made with a call that takes the key out (GETDEL)
ProbedDestructive(s, key) ==
    IF Holds(s, key) THEN Remove(s, CHOOSE m \in 1..Len(s) : s[m].key = key) ELSE s

\* the store after lfu_redis.exists(key): the call only reads
Probed(s, key) == s

\* one lfu_redis.exists(key) of a comprehension, answered
ProbeExists ==
    /\ pc = "analyze"
    /\ probe_pos < TotalProbes
    /\ LET q == probe_pos + 1
           key == ProbeKey(q)
           present == Holds(store.lfu, key)
           sv == SurvivedPass(q)
           co == ProbeCohort(q)
       IN /\ probe_pos' = q
          /\ store' = [store EXCEPT !.lfu = Probed(@, key)]
          /\ survived_high' = IF sv /\ co = "high"
                              THEN Kept(survived_high, key, present) ELSE survived_high
          /\ survived_medium' = IF sv /\ co = "medium"
                                THEN Kept(survived_medium, key, present) ELSE survived_medium
          /\ survived_low' = IF sv /\ co = "low"
                             THEN Kept(survived_low, key, present) ELSE survived_low
          /\ evicted_high' = IF ~sv /\ co = "high"
                             THEN Kept(evicted_high, key, ~present) ELSE evicted_high
          /\ evicted_medium' = IF ~sv /\ co = "medium"
                               THEN Kept(evicted_medium, key, ~present) ELSE evicted_medium
          /\ evicted_low' = IF ~sv /\ co = "low"
                            THEN Kept(evicted_low, key, ~present) ELSE evicted_low
    /\ calls' = Called(calls, "lfu", "exists")
    /\ UNCHANGED <<cfg, generated, pc, lru_vars, lfu_fill_vars, read_pos,
                   trigger_vars, final_vars, history_vars, failed, reads_of>>

\* an exists call raises: nothing catches it, main() ends
ProbeRaised ==
    /\ pc = "analyze"
    /\ probe_pos < TotalProbes
    /\ \E e \in ExistsAnswers(cfg.lfu, store.lfu, ProbeKey(probe_pos + 1)) : ~e.ok
    /\ probe_pos' = probe_pos + 1
    /\ pc' = "raised"
    /\ calls' = Called(calls, "lfu", "exists")
    /\ failed' = Called(failed, "lfu", "exists")
    /\ UNCHANGED <<cfg, store, generated, lru_vars, lfu_fill_vars, read_pos,
                   trigger_vars, survived_high, survived_medium, survived_low,
                   evicted_high, evicted_medium, evicted_low, final_vars, history_vars,
                   reads_of>>

\* all six comprehensions are over
FinishAnalysis ==
    /\ pc = "analyze"
    /\ probe_pos = TotalProbes
    /\ pc' = "final"
    /\ UNCHANGED <<cfg, store, generated, lru_vars, lfu_fill_vars, read_pos,
                   trigger_vars, analysis_vars, final_vars, history_vars,
                   call_vars, reads_of>>

(* ---------------- final report (lines 359-376) ------------------------ *)
FinalReport ==
    /\ pc = "final"
    /\ \E a \in InfoAnswers(cfg.lru, store.lru), b \in InfoAnswers(cfg.lfu, store.lfu) :
          /\ final_lru_info' = get_redis_info(a[1], a[2])
          /\ final_lfu_info' = get_redis_info(b[1], b[2])
          /\ last_probe' = ProbeRecord("lfu", b)
          /\ failed' = failed
    /\ calls' = Called(Called(calls, "lru", "info"), "lfu", "info")
    /\ pc' = "done"
    /\ UNCHANGED <<cfg, store, generated, lru_vars, lfu_fill_vars, read_pos,
                   trigger_vars, analysis_vars, attempts, stop_cause, stop_error, twice_vars,
                   reads_of>>

\* line 374: the status line of the LRU table
lru_status_msg ==
    IF lru_error_occurred THEN lru_error_msg ELSE <<"Final: ", Len(lru_keys), " keys">>

\* line 376: the status line of the LFU table
lfu_status_msg == <<"Final: ", final_lfu_info.key_count, " keys">>

(* ---------------- the cache instance on its own ----------------------- *)
\* an entry of the LFU instance expires or is reclaimed under memory pressure
Vanish ==
    /\ cfg.lfu.volatile
    /\ pc = "analyze"
    /\ \E v \in 1..Len(store.lfu) :
          store' = [store EXCEPT !.lfu = Remove(@, v)]
    /\ vanished' = TRUE
    /\ UNCHANGED <<cfg, generated, pc, lru_vars, lfu_fill_vars, read_pos,
                   trigger_vars, analysis_vars, final_vars,
                   attempts, stop_cause, stop_error, last_probe, first_analysis,
                   call_vars, reads_of>>

\* the six lists of lines 348-354
AnalysisResult ==
    <<survived_high, survived_medium, survived_low,
      evicted_high, evicted_medium, evicted_low>>

\* a caller runs lines 348-354 a second time, right after the first
Reanalyze ==
    /\ pc = "final"
    /\ first_analysis = <<>>
    /\ first_analysis' = AnalysisResult
    /\ probe_pos' = 0
    /\ survived_high' = <<>> /\ survived_medium' = <<>> /\ survived_low' = <<>>
    /\ evicted_high' = <<>> /\ evicted_medium' = <<>> /\ evicted_low' = <<>>
    /\ pc' = "analyze"
    /\ UNCHANGED <<cfg, store, generated, lru_vars, lfu_fill_vars, read_pos,
                   trigger_vars, final_vars,
                   attempts, stop_cause, stop_error, last_probe, vanished,
                   call_vars, reads_of>>

Next ==
    \/ Connect
    \/ FlushDb
    \/ LruFillWrite
    \/ LruFillRejected
    \/ LruFillResponseError
    \/ LruFillFailed
    \/ LfuFillWrite
    \/ LfuFillFailed
    \/ InjectRead
    \/ FinishInjection
    \/ TriggerInit
    \/ TriggerWrite
    \/ TriggerFailed
    \/ ProbeExists
    \/ ProbeRaised
    \/ FinishAnalysis
    \/ FinalReport
    \/ Vanish

Spec == Init /\ [][Next]_vars

\* main() up to the end of the two saturation loops (lines 80-259)
Saturation ==
    \/ Connect
    \/ FlushDb
    \/ LruFillWrite
    \/ LruFillRejected
    \/ LruFillResponseError
    \/ LruFillFailed
    \/ LfuFillWrite
    \/ LfuFillFailed

\* the scenarios whose faults, if any, fall in that part of main()
SaturationScenarios ==
    {s \in Scenarios :
        \A inst \in Instances :
            s[inst].faults \in {"none", "connect", "saturation"} /\ ~s[inst].volatile}

SaturationInit == Init /\ cfg \in SaturationScenarios

\* main() is one sequential thread and every call returns or times out
\* (socket_timeout=5, lines 83-98): a step that can be taken is taken
SaturationSpec == SaturationInit /\ [][Saturation]_vars /\ WF_vars(Saturation)

\* main() with the survival analysis run twice by its caller
NextTwice == Next \/ Reanalyze

SpecTwice == Init /\ [][NextTwice]_vars

(* ====================================================================== *)
(* Properties                                                             *)
(* ====================================================================== *)
ToSet(list) == {list[n] : n \in 1..Len(list)}

AnalysisOver == pc \in {"final", "done"}

FillPc(inst) == IF inst = "lru" THEN "lru_fill" ELSE "lfu_fill"
Keys(inst) == IF inst = "lru" THEN lru_keys ELSE lfu_keys
Info(inst) == IF inst = "lru" THEN lru_info ELSE lfu_info

\* the saturation loop of inst ended on a write refused for the memory limit
Rejected(inst) ==
    /\ stop_error[inst] # Unbound
    /\ stop_error[inst].cls = "ResponseError"
    /\ IsMemoryLimit(stop_error[inst])

\* lines 141-142, 187-188 and 257-259: the stop reason main() keeps.  The LRU loop
\* sets lru_error_occurred; the LFU loop's handler prints and keeps nothing.
StopReason(inst) ==
    IF inst = "lru" /\ lru_error_occurred THEN "rejection" ELSE "none"

\* what the saturation loop of inst leaves of its ending for the report to read
\* (lines 374, 420: lru_error_occurred and lru_error_msg; nothing for the LFU loop)
RecordedStop(inst) ==
    IF inst = "lru" THEN <<lru_error_occurred, lru_error_msg>> ELSE <<>>

\* the record a stop on the high-water mark leaves
RecordAfterThreshold(inst) == IF inst = "lru" THEN <<FALSE, "">> ELSE <<>>

Partitioned(survived, evicted, cohort) ==
    /\ Len(survived) + Len(evicted) = Len(cohort)
    /\ ToSet(survived) \cap ToSet(evicted) = {}
    /\ ToSet(survived) \cup ToSet(evicted) = ToSet(cohort)

\* C1: after the survival analysis, every key of a cohort is in exactly one of the
\* cohort's survived and evicted lists, so the two lengths add up to the cohort's.
C1_ExhaustivePartition ==
    AnalysisOver =>
        /\ Partitioned(survived_high, evicted_high, high_access_keys)
        /\ Partitioned(survived_medium, evicted_medium, medium_access_keys)
        /\ Partitioned(survived_low, evicted_low, low_access_keys)

\* the run against the 50-entry instance that reclaims the least read entry first
StubRunDone == cfg.lfu = StubCfg /\ pc = "done"

\* C2: against the 50-entry least-read-first instance the whole pipeline ends with
\* cohorts of 12/12/24 keys, at least 10 of the 12 high keys surviving, survival
\* rate high >= medium >= low, and no more keys surviving than the instance holds.
C2_StubScenario ==
    StubRunDone =>
        /\ Len(high_access_keys) = HighQuota
        /\ Len(medium_access_keys) = MediumQuota - HighQuota
        /\ Len(low_access_keys) = LowQuota - MediumQuota
        /\ i + 1 = TriggerWrites
        /\ Len(survived_high) >= 10
        /\ Len(survived_high) * Len(medium_access_keys)
               >= Len(survived_medium) * Len(high_access_keys)
        /\ Len(survived_medium) * Len(low_access_keys)
               >= Len(survived_low) * Len(medium_access_keys)
        /\ Len(survived_high) + Len(survived_medium) + Len(survived_low) <= StubCapacity

\* the stub run ended, entries were reclaimed on the way, all of them trigger keys
C2_Witness ==
    /\ StubRunDone
    /\ evicted_keys > 0
    /\ Len(store.lfu) = StubCapacity
    /\ Len(survived_low) = LowQuota - MediumQuota

\* C3: when the k-th saturation write of an instance is refused for the memory
\* limit, the loop issues no further write, the key list holds the k-1 keys written
\* before, the stop reason kept is rejection, and no exception leaves the loop.
C3_RejectionStops ==
    \A inst \in Instances :
        Rejected(inst) =>
            /\ pc # FillPc(inst)
            /\ Len(Keys(inst)) = attempts[inst] - 1
            /\ StopReason(inst) = "rejection"
            /\ stop_cause[inst] # "raised"

\* the same on the LRU instance alone, where lines 185-189 keep the reason
C3_OnLruInstance ==
    Rejected("lru") =>
        /\ pc # "lru_fill"
        /\ Len(lru_keys) = attempts.lru - 1
        /\ StopReason("lru") = "rejection"
        /\ stop_cause.lru = "rejected"

\* C4: on each instance a stop on the high-water mark and a stop on a memory-limit
\* rejection never leave the same recorded stop state.
C4_StopsRecordedDistinctly ==
    \A inst \in Instances :
        /\ stop_cause[inst] = "threshold" => RecordedStop(inst) = RecordAfterThreshold(inst)
        /\ Rejected(inst) => RecordedStop(inst) # RecordAfterThreshold(inst)

IsZeroSnapshot(s) ==
    /\ s.used_memory = 0 /\ s.max_memory = 0 /\ s.key_count = 0
    /\ s.memory_percent.num = 0 /\ s.memory_percent.den > 0

\* C5: get_redis_info returns a snapshot whatever the INFO calls answer: with a
\* failed call the snapshot has the error field and all numbers 0; with both calls
\* answered it has no error field and memory_percent is used/max*100, or 0 when
\* max_memory is 0.
C5_SnapshotNeverRaises ==
    last_probe # Unbound =>
        LET s == last_probe.snapshot
            mem == last_probe.mem
            ks == last_probe.ks
        IN /\ DOMAIN s \subseteq
                  {"used_memory", "max_memory", "key_count", "memory_percent", "error"}
           /\ (~mem.ok \/ ~ks.ok) => ("error" \in DOMAIN s /\ IsZeroSnapshot(s))
           /\ (mem.ok /\ ks.ok) =>
                  /\ "error" \notin DOMAIN s
                  /\ s.memory_percent.den > 0
                  /\ mem.val.maxmemory > 0 =>
                         s.memory_percent.num * mem.val.maxmemory
                             = mem.val.used_memory * 100 * s.memory_percent.den
                  /\ mem.val.maxmemory = 0 => s.memory_percent.num = 0

\* a probe of an instance without ceiling that holds entries, answered
C5_Witness ==
    /\ last_probe # Unbound
    /\ last_probe.mem.ok /\ last_probe.ks.ok
    /\ last_probe.mem.val.maxmemory = 0
    /\ last_probe.mem.val.used_memory > 0

\* an instance of fixed capacity that refuses writes when full, with INFO failing
\* every time and no other failure
TelemetryDown(inst) ==
    /\ cfg[inst].telemetry = "down"
    /\ cfg[inst].policy = "noeviction"
    /\ cfg[inst].maxmemory > 0
    /\ cfg[inst].faults = "none"
    /\ ~cfg[inst].volatile

\* C6: when every telemetry probe fails, every snapshot the saturation loop sees
\* has the error field and zeroed numbers, the threshold stop never fires, and
\* against an instance that refuses writes when full the loop ends on a rejection.
C6_DownTelemetryStillStops ==
    /\ [](\A inst \in Instances :
            TelemetryDown(inst) =>
                /\ Info(inst) # Unbound =>
                       ("error" \in DOMAIN Info(inst) /\ IsZeroSnapshot(Info(inst)))
                /\ stop_cause[inst] # "threshold")
    /\ \A inst \in Instances :
            (TelemetryDown(inst) /\ pc = FillPc(inst))
                ~> (pc # FillPc(inst) /\ Rejected(inst))

\* the LFU loop ended on the rejection of its 30th write, all probes having failed
C6_Witness ==
    /\ TelemetryDown("lfu")
    /\ Rejected("lfu")
    /\ attempts.lfu = 30
    /\ "error" \in DOMAIN lfu_info

\* the sample is a good one that lies above the high-water mark
SampleOver(info) ==
    /\ info # Unbound
    /\ "error" \notin DOMAIN info
    /\ info.max_memory > 0
    /\ info.used_memory * 100 > HighWaterMark * info.max_memory

\* C7: the saturation loop issues no write after a sample above 95%; with working
\* telemetry, when it stops on the threshold the used memory lies above 95% of
\* max_memory by at most the size of one entry.
C7_NoWriteAboveMark ==
    \A inst \in Instances :
        /\ pc = FillPc(inst) => ~SampleOver(Info(inst))
        /\ (cfg[inst].telemetry = "ok" /\ stop_cause[inst] = "threshold") =>
               /\ SampleOver(Info(inst))
               /\ Info(inst).used_memory * 100 - HighWaterMark * Info(inst).max_memory
                      <= PayloadSize * 100

\* the LFU loop of the large instance stopped on the threshold
C7_Witness ==
    /\ cfg.lfu = StubCfg
    /\ stop_cause.lfu = "threshold"
    /\ SampleOver(lfu_info)
    /\ Len(lfu_keys) > 1

\* entries that fit under the ceiling of inst
FitCount(inst) == cfg[inst].maxmemory \div PayloadSize

\* C8: with a fixed positive ceiling and a fixed payload size the saturation loop
\* of each instance issues at most (entries that fit) + 1 writes, whether the
\* instance reclaims entries or refuses writes (read here with working telemetry
\* and no call failing).
C8_BoundedSaturation ==
    \A inst \in Instances :
        (/\ cfg[inst].maxmemory > 0
         /\ cfg[inst].telemetry = "ok"
         /\ cfg[inst].faults = "none") =>
            attempts[inst] <= FitCount(inst) + 1

\* C9: from one eviction-trigger iteration to the next, if the sampled key count
\* rose by at most one, the estimate evicted_keys did not fall.
C9_EstimateNonDecreasing ==
    [][(/\ pc = "trigger"
        /\ i >= 0
        /\ i' = i + 1
        /\ current_keys' <= current_keys + 1)
       => evicted_keys' >= evicted_keys]_vars

\* iterations in which entries were reclaimed follow one another
C9_Witness ==
    /\ pc = "trigger"
    /\ i >= 2
    /\ evicted_keys >= 2
    /\ current_keys > 0

\* the analysis has been run twice
AnalyzedTwice == pc = "final" /\ first_analysis # <<>>

SameSets(r1, r2) == \A n \in 1..6 : ToSet(r1[n]) = ToSet(r2[n])

C11_ProbeFailureCountsAsEvicted ==
    failed.lfu.exists > 0 =>
        /\ pc \in {"analyze", "final", "done"}
        /\ LET key == ProbeKey(probe_pos)
           IN pc # "analyze" =>
                  key \in ToSet(evicted_high) \cup ToSet(evicted_medium)
                              \cup ToSet(evicted_low)

\* the saturation write of inst that ended its loop failed for a reason other than
\* the memory limit
FailedOtherwise(inst) ==
    /\ stop_error[inst] # Unbound
    /\ ~(stop_error[inst].cls = "ResponseError" /\ IsMemoryLimit(stop_error[inst]))

\* C12: when a saturation write fails for a reason other than a memory-limit
\* rejection, on either instance, no further write of that phase is issued and the
\* failure leaves main() as a fatal outcome: the run does not go on to later phases.
C12_OtherFailureIsFatal ==
    \A inst \in Instances :
        FailedOtherwise(inst) =>
            /\ calls[inst].fill_setex = attempts[inst]
            /\ failed[inst].fill_setex = 1
            /\ pc = "raised"

\* the part of C12 that lines 190-191 do give: a ResponseError of the LRU loop
\* that does not name the memory limit is raised again
C12_LruResponseErrorRaised ==
    (FailedOtherwise("lru") /\ stop_error.lru.cls = "ResponseError") =>
        /\ pc = "raised"
        /\ calls.lru.fill_setex = attempts.lru
        /\ calls.lfu.fill_setex = 0

\* in all cases the failed write is the last of its loop
C12_NoRetry ==
    \A inst \in Instances :
        FailedOtherwise(inst) =>
            /\ pc # FillPc(inst)
            /\ calls[inst].fill_setex = attempts[inst]
            /\ failed[inst].fill_setex = 1

\* a ping raised
PingFailed == failed.lru.ping + failed.lfu.ping > 0

\* C13: if the ping of either instance fails (connection error, timeout, any other
\* exception), the run ends before any phase starts: no flushdb, setex, get, exists
\* or telemetry probe is ever issued to either instance, and nothing they hold or
\* main() keeps is changed.
C13_PingFailureEndsRun ==
    PingFailed =>
        /\ pc = "returned"
        /\ \A inst \in Instances : \A site \in CallSites \ {"ping"} :
               calls[inst][site] = 0
        /\ store \in [Instances -> StaleStores]
        /\ generated = 0
        /\ lru_keys = <<>> /\ lfu_keys = <<>>

\* the LRU instance answered its ping, the LFU instance, holding stale data, did not
C13_Witness ==
    /\ pc = "returned"
    /\ calls.lru.ping = 1 /\ failed.lru.ping = 0
    /\ calls.lfu.ping = 1 /\ failed.lfu.ping = 1
    /\ store.lfu # <<>>

Same(site) == calls'.lfu[site] = calls.lfu[site]

\* C14: on the LFU instance the phases are strictly ordered: once a read of the
\* injection has been issued no saturation write follows, once a trigger write has
\* been issued no injection read (nor saturation write) follows, and once an
\* existence probe has been issued no trigger write (nor read, nor saturation
\* write) follows.
C14_PhasesInOrder ==
    [][/\ calls.lfu.get > 0 => Same("fill_setex")
       /\ calls.lfu.trigger_setex > 0 => (Same("get") /\ Same("fill_setex"))
       /\ calls.lfu.exists > 0 =>
              (Same("trigger_setex") /\ Same("get") /\ Same("fill_setex"))]_vars

\* a run through all four phases of the LFU instance, each with calls
C14_Witness ==
    /\ pc = "done"
    /\ calls.lfu.fill_setex > 1
    /\ calls.lfu.get > 0
    /\ calls.lfu.trigger_setex = TriggerWrites
    /\ calls.lfu.exists > 0

\* the keys main() recorded as written to the LFU instance
WrittenToLfu == ToSet(lfu_keys)

CohortUnion ==
    ToSet(high_access_keys) \cup ToSet(medium_access_keys) \cup ToSet(low_access_keys)

CohortsDisjoint ==
    /\ ToSet(high_access_keys) \cap ToSet(medium_access_keys) = {}
    /\ ToSet(high_access_keys) \cap ToSet(low_access_keys) = {}
    /\ ToSet(medium_access_keys) \cap ToSet(low_access_keys) = {}
    /\ Cardinality(CohortUnion) = Len(CohortKeys)

Min(a, b) == IF a <= b THEN a ELSE b

\* C15 as stated: at every point of a run the cohorts are pairwise disjoint and
\* their union is a strict subset of the keys written so far to the LFU instance,
\* for every number of writes the saturation may stop at.
C15_CohortsStrictSubset ==
    /\ CohortsDisjoint
    /\ CohortUnion \subseteq WrittenToLfu
    /\ CohortUnion # WrittenToLfu

\* C15 as amended: the cohorts are pairwise disjoint and their union is a subset
\* of the keys written so far, namely the first min(n, 48) of the n keys written;
\* it is a strict subset exactly when more than 48 keys have been written.
C15_CohortsDisjointSubset ==
    /\ CohortsDisjoint
    /\ CohortUnion \subseteq WrittenToLfu
    /\ CohortUnion = {lfu_keys[n] : n \in 1..Min(Len(lfu_keys), LowQuota)}
    /\ Cardinality(WrittenToLfu) = Len(lfu_keys)
    /\ (CohortUnion # WrittenToLfu) <=> (Len(lfu_keys) > LowQuota)

\* a saturation that stopped after more than 48 writes, all cohorts full
C15_Witness ==
    /\ pc \notin {"lru_fill", "lfu_fill"}
    /\ Len(lfu_keys) > LowQuota
    /\ Len(high_access_keys) = HighQuota
    /\ Len(low_access_keys) = LowQuota - MediumQuota
    /\ CohortUnion # WrittenToLfu

\* saturation writes of the LFU instance that were accepted
LfuWritesDone == calls.lfu.fill_setex - failed.lfu.fill_setex

\* C16: cohort assignment is positional on the order of the successful writes:
\* after n successful saturation writes the high cohort is written keys
\* 1..min(n,12), the medium cohort keys 13..min(n,24), the low cohort keys
\* 25..min(n,48), keys 49..n are in no cohort; and a step of the eviction trigger
\* changes neither the cohorts nor the list of written keys.
C16_PositionalCohorts ==
    /\ [](LET n == Len(lfu_keys)
          IN /\ n = LfuWritesDone
             /\ high_access_keys = SubSeq(lfu_keys, 1, Min(n, HighQuota))
             /\ medium_access_keys = SubSeq(lfu_keys, HighQuota + 1, Min(n, MediumQuota))
             /\ low_access_keys = SubSeq(lfu_keys, MediumQuota + 1, Min(n, LowQuota))
             /\ \A k \in (LowQuota + 1)..n : lfu_keys[k] \notin CohortUnion)
    /\ [][calls'.lfu.trigger_setex # calls.lfu.trigger_setex
             => UNCHANGED <<lfu_keys, high_access_keys, medium_access_keys,
                            low_access_keys>>]_vars

\* a saturation of more than 48 writes, followed by a trigger write
C16_Witness ==
    /\ pc = "done"
    /\ Len(lfu_keys) > LowQuota
    /\ calls.lfu.trigger_setex > 0
    /\ Len(medium_access_keys) = MediumQuota - HighQuota

\* the read loops have been left
InjectionOver == pc \in {"trigger_init", "trigger", "analyze", "final", "done"}

ReadsOf(key) == IF key \in DOMAIN reads_of THEN reads_of[key] ELSE 0

WriteSites == {"flushdb", "fill_setex", "trigger_setex"}

\* C17: during the injection no write is issued to either instance and the key
\* lists and cohorts are unchanged; once it is over every high key has had exactly
\* 10 read attempts, every medium key 5 and every low key 2, whatever reads
\* failed: a failed read neither skips the remaining reads nor ends the phase.
C17_InjectionReadsOnly ==
    /\ [][pc = "inject" =>
             /\ \A inst \in Instances : \A site \in WriteSites :
                    calls'[inst][site] = calls[inst][site]
             /\ UNCHANGED <<lru_keys, lfu_keys, high_access_keys, medium_access_keys,
                            low_access_keys>>
             /\ pc' \in {"inject", "trigger_init"}]_vars
    /\ [](InjectionOver =>
             /\ \A n \in 1..Len(high_access_keys) :
                    ReadsOf(high_access_keys[n]) = HighReads
             /\ \A n \in 1..Len(medium_access_keys) :
                    ReadsOf(medium_access_keys[n]) = MediumReads
             /\ \A n \in 1..Len(low_access_keys) :
                    ReadsOf(low_access_keys[n]) = LowReads
             /\ DOMAIN reads_of = CohortUnion
             /\ calls.lfu.get = TotalReads
             /\ calls.lru.get = 0)

\* an injection over two keys in which reads failed, among them the first
C17_Witness ==
    /\ InjectionOver
    /\ Len(high_access_keys) = 2
    /\ failed.lfu.get >= 2
    /\ store.lfu # <<>>
    /\ \E n \in 1..Len(store.lfu) :
           store.lfu[n].key = high_access_keys[1] /\ store.lfu[n].freq < HighReads

\* the trigger loop has been left
TriggerOver == pc \in {"analyze", "final", "done"} \/ (pc = "raised" /\ calls.lfu.exists > 0)

\* the trigger loop was left by its failure handler, of which the only trace
\* main() could give its caller is an exception: lines 341-343 keep no variable
TriggerFailureSurfaced == pc = "raised" /\ calls.lfu.exists = 0

\* the counts of C18: 50 writes when none fails, whatever the telemetry answers;
\* j writes when the j-th is the first to fail
C18_WriteCounts ==
    TriggerOver =>
        /\ calls.lfu.trigger_setex = i + 1
        /\ failed.lfu.trigger_setex \in {0, 1}
        /\ failed.lfu.trigger_setex = 0 => calls.lfu.trigger_setex = TriggerWrites
        /\ failed.lfu.trigger_setex = 1 => calls.lfu.trigger_setex <= TriggerWrites

\* C18: the eviction trigger issues exactly 50 writes when no write fails, whatever
\* the key-count telemetry and the estimate are; if the j-th write is the first to
\* fail, exactly j writes are attempted, none after it, and the failure is surfaced
\* to the caller of main().
C18_TriggerBudget ==
    /\ C18_WriteCounts
    /\ failed.lfu.trigger_setex > 0 => TriggerFailureSurfaced

\* an instance without ceiling that accepts every write: its utilization is always 0%
AcceptsEverything(inst) ==
    /\ cfg[inst].maxmemory = 0
    /\ cfg[inst].faults = "none"
    /\ cfg[inst].telemetry = "ok"

\* against such an instance no step of the saturation loop leaves the loop,
\* however many writes have been issued
C19_NeverLeaves ==
    [][\A inst \in Instances :
           (AcceptsEverything(inst) /\ pc = FillPc(inst)) => pc' = FillPc(inst)]_vars

\* C19: the saturation loop has a maximum-iteration safety bound: it has stopped
\* by the time the bound is reached, even against an instance that accepts every
\* write and never reports utilization above the high-water mark (maxmemory = 0).
\* The bound is taken as large as the model follows the loop.
C19_SafetyBound ==
    \A inst \in Instances :
        (AcceptsEverything(inst) /\ attempts[inst] >= MaxSatWrites) => pc # FillPc(inst)

LruSaturationOver == pc \notin {"connect", "flushdb", "lru_fill"}

\* C20: the two instances are driven independently.  A step of the LRU saturation
\* issues no call on the LFU instance and changes none of its key lists, cohorts
\* or entries; once the LRU saturation is over the LRU instance gets no write, read
\* or existence probe, only the telemetry probe of the final report, and neither
\* lru_keys nor what the LRU instance holds is changed by the LFU phases.
C20_InstancesIndependent ==
    /\ [][pc = "lru_fill" =>
             /\ calls'.lfu = calls.lfu
             /\ store'.lfu = store.lfu
             /\ UNCHANGED <<lfu_keys, high_access_keys, medium_access_keys,
                            low_access_keys, lfu_info>>]_vars
    /\ [][LruSaturationOver =>
             /\ \A site \in CallSites \ {"info"} : calls'.lru[site] = calls.lru[site]
             /\ calls'.lru.info # calls.lru.info =>
                    (pc = "final" /\ pc' = "done" /\ calls'.lru.info = calls.lru.info + 1)
             /\ store'.lru = store.lru
             /\ UNCHANGED <<lru_keys, lru_error_occurred, lru_error_msg, lru_info>>]_vars

\* a whole run: the LRU instance was filled and probed once more at the end, the
\* LFU instance went through reads, trigger writes and existence probes
C20_Witness ==
    /\ pc = "done"
    /\ calls.lru.fill_setex > 1
    /\ calls.lru.info = Len(lru_keys) + 1
    /\ calls.lfu.get > 0
    /\ calls.lfu.trigger_setex > 0
    /\ calls.lfu.exists > 0
    /\ store.lru # <<>>

====
